---- MODULE Spec2Model ----
(***************************************************************************)
(* subtitle-adjust: the timestamp / timespan parsers, the SubRip document  *)
(* parser and formatter, the transformation pass (modify) and the          *)
(* backup / write / restore sequencing of main.                            *)
(*                                                                         *)
(* Text is modelled as a sequence of one-character strings, so that        *)
(* formatting and parsing are computed character by character.  An         *)
(* Option<T> is a sequence of length 0 (None) or 1 (Some).                 *)
(***************************************************************************)
EXTENDS Integers, Sequences, FiniteSets, TLC

VARIABLES
    pc,             \* control position of the run
    err,            \* the error the run ended with ("none" while it has none)
    opt,            \* OptFinal
    fs,             \* the two paths main touches: [path, bak], each an Option<text>
    reader,         \* lines of the opened input not yet read
    buf,            \* the line read_line returned last
    line_ending,    \* Option<text>
    part_number,    \* Option<i64>
    part_times,     \* Option<TimeSpan>
    part_position,  \* Option<Position>
    part_lines,     \* Option<Vec<String>>
    subs,           \* Vec<Subtitle>
    idx,            \* modify's loop index i (0-based)
    orig,           \* the records as modify received them
    ts_in,          \* the argument of the function of lib.rs that is called
    ts_out,         \* Option<what that function returned>
    rt_text         \* Option<text>: the first formatting of a round trip

vars == <<pc, err, opt, fs, reader, buf, line_ending, part_number, part_times,
          part_position, part_lines, subs, idx, orig, ts_in, ts_out, rt_text>>

-----------------------------------------------------------------------------
(* Characters and small text helpers *)

LF == "\n"
CR == "\r"
BSL == "\\"

None == <<>>
Some(v) == <<v>>
IsSome(o) == Len(o) = 1
Unwrap(o) == o[1]

Digit == {"0", "1", "2", "3", "4", "5", "6", "7", "8", "9"}

DigitVal(c) ==
    CASE c = "0" -> 0 [] c = "1" -> 1 [] c = "2" -> 2 [] c = "3" -> 3
      [] c = "4" -> 4 [] c = "5" -> 5 [] c = "6" -> 6 [] c = "7" -> 7
      [] c = "8" -> 8 [] c = "9" -> 9

DigitChar(n) == <<"0", "1", "2", "3", "4", "5", "6", "7", "8", "9">>[n + 1]

\* char::is_whitespace and the regex class \s, over the characters used here
White == {" ", "\t", "\n", "\r"}

IsDigits(s) == Len(s) > 0 /\ \A k \in 1..Len(s) : s[k] \in Digit

RECURSIVE ParseNat(_)
ParseNat(s) ==
    IF s = <<>> THEN 0
    ELSE 10 * ParseNat(SubSeq(s, 1, Len(s) - 1)) + DigitVal(s[Len(s)])

RECURSIVE NatToStr(_)
NatToStr(n) ==
    IF n < 10 THEN <<DigitChar(n)>>
    ELSE NatToStr(n \div 10) \o <<DigitChar(n % 10)>>

\* Display of a signed integer ({} of i64 / i32)
IntToStr(n) == IF n < 0 THEN <<"-">> \o NatToStr(-n) ELSE NatToStr(n)

\* {:0w} of a non-negative integer
RECURSIVE ZeroPad(_, _)
ZeroPad(s, w) == IF Len(s) >= w THEN s ELSE ZeroPad(<<"0">> \o s, w)

\* index of the first character of s that lies in C, 0 when there is none
FirstIdx(s, C) ==
    IF \E k \in 1..Len(s) : s[k] \in C
    THEN CHOOSE k \in 1..Len(s) : s[k] \in C /\ \A j \in 1..(k - 1) : s[j] \notin C
    ELSE 0

\* index of the last character of s that lies outside C, 0 when there is none
LastIdxNotIn(s, C) ==
    IF \E k \in 1..Len(s) : s[k] \notin C
    THEN CHOOSE k \in 1..Len(s) : s[k] \notin C /\ \A j \in (k + 1)..Len(s) : s[j] \in C
    ELSE 0

\* str::trim_end / trim_start / trim restricted to a character set
TrimEnd(s, C) == SubSeq(s, 1, LastIdxNotIn(s, C))
TrimStart(s, C) ==
    IF \E k \in 1..Len(s) : s[k] \notin C
    THEN SubSeq(s, CHOOSE k \in 1..Len(s) : s[k] \notin C /\ \A j \in 1..(k - 1) : s[j] \in C, Len(s))
    ELSE <<>>
TrimBoth(s, C) == TrimStart(TrimEnd(s, C), C)

EndsWith(s, t) == Len(s) >= Len(t) /\ SubSeq(s, Len(s) - Len(t) + 1, Len(s)) = t
StartsWith(s, t) == Len(s) >= Len(t) /\ SubSeq(s, 1, Len(t)) = t

RECURSIVE Concat(_)
Concat(ss) == IF ss = <<>> THEN <<>> ELSE Head(ss) \o Concat(Tail(ss))

\* i64::MIN and i64::MAX, the bounds of an open-ended interval.  They are only
\* compared, never added to; the model's integers hold 32 bits, so the two
\* sentinels are the extreme values those can hold.
I64_MIN == -2147483647
I64_MAX == 2147483647

-----------------------------------------------------------------------------
(* lib.rs: TimeSpan, the formatters *)

TimeSpan(s, e) == [start_ms |-> s, end_ms |-> e]

\* A variant of contains that leaves the two bounds out
contains_Open(span, ms) == ms > span.start_ms /\ ms < span.end_ms

contains(span, ms) == ms >= span.start_ms /\ ms <= span.end_ms

\* impl Display for Milliseconds, a field at a time: each operator writes
\* one field of ms and hands what is left of ms to the next
FmtSeconds(ms) ==
    ZeroPad(NatToStr(ms \div 1000), 2) \o <<",">>
        \o ZeroPad(NatToStr((ms - (ms \div 1000) * 1000) % 1000), 3)

FmtMinutes(ms) ==
    ZeroPad(NatToStr(ms \div 60000), 2) \o <<":">> \o FmtSeconds(ms - (ms \div 60000) * 60000)

FmtHours(ms) ==
    ZeroPad(NatToStr(ms \div 3600000), 2) \o <<":">> \o FmtMinutes(ms - (ms \div 3600000) * 3600000)

\* What fmt writes for i64::MIN where overflow wraps: -self.0 is i64::MIN again,
\* so every field after the sign is negative
MinMsWrapped ==
    <<"-", "-", "2", "5", "6", "2", "0", "4", "7", "7", "8", "8", "0", "1", "5",
    ":", "-", "1", "2", ":", "-", "5", "5", ",", "-", "8", "0", "8">>

FmtMilliseconds(v) ==
    IF v = I64_MIN THEN MinMsWrapped
    ELSE IF v < 0 THEN <<"-">> \o FmtHours(-v) ELSE FmtHours(v)

\* impl Display for TimeSpan
FmtTimeSpan(span) ==
    FmtMilliseconds(span.start_ms) \o <<" ", "-", "-", ">", " ">> \o FmtMilliseconds(span.end_ms)

\* impl Display for Position
FmtPosition(p) ==
    <<"X", "1", ":">> \o IntToStr(p.x1) \o <<" ", "X", "2", ":">> \o IntToStr(p.x2)
        \o <<" ", "Y", "1", ":">> \o IntToStr(p.y1) \o <<" ", "Y", "2", ":">> \o IntToStr(p.y2)

FmtSubtitle(sub, le) ==
    IntToStr(sub.number) \o le
        \o FmtTimeSpan(sub.time_span)
        \o (IF IsSome(sub.position) THEN <<" ", " ">> \o FmtPosition(Unwrap(sub.position)) ELSE <<>>)
        \o le
        \o Concat(sub.lines)
        \o le

\* impl Display for SubData
RECURSIVE FmtSubData(_, _)
FmtSubData(ss, le) ==
    IF ss = <<>> THEN <<>> ELSE FmtSubtitle(Head(ss), le) \o FmtSubData(Tail(ss), le)

-----------------------------------------------------------------------------
(* lib.rs: parse_decimal_part, NUMBER_REGEX, parse_ms, parse_timespan *)

Ok(v) == [ok |-> TRUE, v |-> v]
Err == [ok |-> FALSE, v |-> 0]

RECURSIVE DivLeadingZeros(_, _)
DivLeadingZeros(result, n) ==
    IF n # <<>> /\ Head(n) = "0" THEN DivLeadingZeros(result \div 10, Tail(n)) ELSE result

\* u64 arithmetic.  A u64, and a value that may not fit one, is held as the
\* sequence of its decimal digits, lowest first, with no zero at the top
\* (zero is the empty sequence), so that values above 2^31 can be computed.
RECURSIVE NumTrim(_)
NumTrim(a) ==
    IF a # <<>> /\ a[Len(a)] = 0 THEN NumTrim(SubSeq(a, 1, Len(a) - 1)) ELSE a

\* the number a text of digits writes
NumOfDigits(d) == NumTrim([k \in 1..Len(d) |-> DigitVal(d[Len(d) + 1 - k])])

NumLess(a, b) ==
    \/ Len(a) < Len(b)
    \/ /\ Len(a) = Len(b)
       /\ \E k \in 1..Len(a) : a[k] < b[k] /\ \A j \in (k + 1)..Len(a) : a[j] = b[j]

RECURSIVE NumTimesCarry(_, _, _)
NumTimesCarry(a, k, carry) ==
    IF a = <<>>
    THEN (IF carry = 0 THEN <<>> ELSE <<carry % 10>> \o NumTimesCarry(a, k, carry \div 10))
    ELSE <<(Head(a) * k + carry) % 10>>
            \o NumTimesCarry(Tail(a), k, (Head(a) * k + carry) \div 10)

\* a * k, for k < 1000
NumTimes(a, k) == NumTrim(NumTimesCarry(a, k, 0))

RECURSIVE NumMinusBorrow(_, _, _)
NumMinusBorrow(a, b, borrow) ==
    IF a = <<>> THEN <<>>
    ELSE <<(Head(a) - (IF b = <<>> THEN 0 ELSE Head(b)) - borrow + 10) % 10>>
            \o NumMinusBorrow(Tail(a), IF b = <<>> THEN <<>> ELSE Tail(b),
                              IF Head(a) - (IF b = <<>> THEN 0 ELSE Head(b)) - borrow < 0
                              THEN 1 ELSE 0)

\* a - b, for a >= b
NumMinus(a, b) == NumTrim(NumMinusBorrow(a, b, 0))

\* a / b with the remainder dropped, for a quotient < 1000
NumQuotient(a, b) ==
    CHOOSE q \in 0..999 : ~NumLess(a, NumTimes(b, q)) /\ NumLess(a, NumTimes(b, q + 1))

\* the value of a number < 2^31
RECURSIVE NumValue(_)
NumValue(a) == IF a = <<>> THEN 0 ELSE Head(a) + 10 * NumValue(Tail(a))

\* 2^64 = u64::MAX + 1
TWO_64 ==
    NumOfDigits(<<"1", "8", "4", "4", "6", "7", "4", "4", "0", "7",
                  "3", "7", "0", "9", "5", "5", "1", "6", "1", "6">>)

FitsU64(a) == NumLess(a, TWO_64)

\* what a u64 holds of a value < 1000 * 2^64 when overflow is not checked
WrapU64(a) ==
    IF FitsU64(a) THEN a ELSE NumMinus(a, NumTimes(TWO_64, NumQuotient(a, TWO_64)))

\* 10^n
NumPow10(n) == [k \in 1..(n + 1) |-> IF k = n + 1 THEN 1 ELSE 0]

\* the outcomes of parse_decimal_part: [ok, v, panic]
DecimalOk(v) == [ok |-> TRUE, v |-> v, panic |-> FALSE]
DecimalErr == [ok |-> FALSE, v |-> 0, panic |-> FALSE]
DecimalPanic == [ok |-> FALSE, v |-> 0, panic |-> TRUE]

\* trimmed.parse::<u64>()? * 1000 / 10_u64.pow(trimmed.len()) and the loop
\* over the leading zeros, for the u64 `parsed` and its product by 1000.
\* With overflow checks (a debug build) a product or a power that does not
\* fit a u64 panics; without them (a release build) it wraps.
DecimalOfProduct(n, len, product, checks) ==
    IF FitsU64(product) /\ FitsU64(NumPow10(len))
    THEN DecimalOk(DivLeadingZeros(NumValue(SubSeq(product, len + 1, Len(product))), n))
    ELSE IF checks THEN DecimalPanic
    ELSE DecimalOk(DivLeadingZeros(NumQuotient(WrapU64(product), WrapU64(NumPow10(len))), n))

DecimalOfTrimmed(n, trimmed, checks) ==
    IF trimmed = <<>> THEN DecimalOk(0)
    ELSE IF ~FitsU64(NumOfDigits(trimmed)) THEN DecimalErr
    ELSE DecimalOfProduct(n, Len(trimmed), NumTimes(NumOfDigits(trimmed), 1000), checks)

\* parse_decimal_part in a build with (checks) or without overflow checks
DecimalPart(n, checks) == DecimalOfTrimmed(n, TrimBoth(n, {"0"}), checks)

\* parse_decimal_part as parse_ms calls it; the builds differ on fractions of
\* 17 digits and more only
parse_decimal_part(n) == DecimalPart(n, FALSE)

\* The captures of NUMBER_REGEX on a text it must match from end to end:
\* [ok, sign (group 1), hours, minutes, seconds, frac (groups 2..5), only (group 6)].
NoNumber ==
    [ok |-> FALSE, sign |-> None, hours |-> None, minutes |-> None,
     seconds |-> None, frac |-> None, only |-> None]

\* (\d+) seconds, (?:[,.](\d+))? the decimal part
NumberCaptures(sign, hrs, mins, secs, frac) ==
    IF /\ IsDigits(secs)
       /\ (IsSome(frac) => IsDigits(Unwrap(frac)))
       /\ (IsSome(mins) => IsDigits(Unwrap(mins)))
       /\ (IsSome(hrs) => IsDigits(Unwrap(hrs)))
    THEN [ok |-> TRUE, sign |-> sign, hours |-> hrs, minutes |-> mins,
          seconds |-> Some(secs), frac |-> frac, only |-> None]
    ELSE NoNumber

\* d is the place of the first [,.] of secp, 0 when it has none
MatchFraction(sign, hrs, mins, secp, d) ==
    IF d = 0 THEN NumberCaptures(sign, hrs, mins, secp, None)
    ELSE NumberCaptures(sign, hrs, mins, SubSeq(secp, 1, d - 1),
                        Some(SubSeq(secp, d + 1, Len(secp))))

MatchSeconds(sign, hrs, mins, secp) ==
    MatchFraction(sign, hrs, mins, secp, FirstIdx(secp, {",", "."}))

\* (?:(?:(\d+):)?(?:(\d+):))? with p1 the text before the first colon, r1 the
\* text after it and c2 the place of the next colon in r1 (0 when none)
MatchMinutes(sign, p1, r1, c2) ==
    IF c2 = 0 THEN MatchSeconds(sign, None, Some(p1), r1)
    ELSE MatchSeconds(sign, Some(p1), Some(SubSeq(r1, 1, c2 - 1)), SubSeq(r1, c2 + 1, Len(r1)))

\* c1 is the place of the first colon of body, 0 when it has none
MatchClock(sign, body, c1) ==
    IF c1 = 0 THEN MatchSeconds(sign, None, None, body)
    ELSE MatchMinutes(sign, SubSeq(body, 1, c1 - 1), SubSeq(body, c1 + 1, Len(body)),
                      FirstIdx(SubSeq(body, c1 + 1, Len(body)), {":"}))

\* the alternation after the sign: \.(\d+), or the clock form
MatchUnsigned(sign, body) ==
    IF body # <<>> /\ Head(body) = "." /\ IsDigits(Tail(body))
    THEN [NoNumber EXCEPT !.ok = TRUE, !.sign = sign, !.only = Some(Tail(body))]
    ELSE MatchClock(sign, body, FirstIdx(body, {":"}))

MatchNumber(s) ==
    IF s # <<>> /\ Head(s) = "-" THEN MatchUnsigned(Some(<<"-">>), Tail(s))
    ELSE MatchUnsigned(None, s)

\* parse_ms from the captures on
MsOfCaptures(captures) ==
    LET sign    == IF IsSome(captures.sign) THEN -1 ELSE 1
        hours   == IF IsSome(captures.hours) THEN ParseNat(Unwrap(captures.hours)) ELSE 0
        minutes == IF IsSome(captures.minutes) THEN ParseNat(Unwrap(captures.minutes)) ELSE 0
        seconds == IF IsSome(captures.seconds) THEN ParseNat(Unwrap(captures.seconds)) ELSE 0
        ms      == IF IsSome(captures.frac) THEN parse_decimal_part(Unwrap(captures.frac)) ELSE DecimalOk(0)
    IN  IF ~captures.ok THEN Err
        ELSE IF IsSome(captures.only)
             THEN (IF parse_decimal_part(Unwrap(captures.only)).ok
                   THEN Ok(sign * parse_decimal_part(Unwrap(captures.only)).v)
                   ELSE Err)
        ELSE IF ~ms.ok THEN Err
        ELSE IF minutes > 60 \/ (seconds > 60 /\ (minutes > 0 \/ hours > 0)) THEN Err
        ELSE Ok(sign * (ms.v + 1000 * (seconds + 60 * (minutes + 60 * hours))))

\* parse_ms: the regex is ^NUMBER\s*$
parse_ms(input) == MsOfCaptures(MatchNumber(TrimEnd(input, White)))

TsErr(kind) == [ok |-> FALSE, err |-> kind, start_ms |-> 0, end_ms |-> 0]
TsOk(s, e) == [ok |-> TRUE, err |-> "none", start_ms |-> s, end_ms |-> e]

\* A variant that takes the first '-' of the input for the separator
Separators_First(input) ==
    {p \in 1..Len(input) : input[p] = "-" /\ \A j \in 1..(p - 1) : input[j] # "-"}

\* A variant in which every '-' of the input can be the separator
Separators_Any(input) == {p \in 1..Len(input) : input[p] = "-"}

\* The places of the separating '-' at which ^(NUMBER)?-(NUMBER)?$ matches
Separators(input) ==
    {p \in 1..Len(input) :
        /\ input[p] = "-"
        /\ (p = 1 \/ MatchNumber(SubSeq(input, 1, p - 1)).ok)
        /\ (p = Len(input) \/ MatchNumber(SubSeq(input, p + 1, Len(input))).ok)}

\* The match the regex engine reports: group 1 is tried before it is skipped,
\* so a match in which the first timestamp takes part comes first.
FirstMatch(seps) == IF \E p \in seps : p > 1 THEN CHOOSE p \in seps : p > 1 ELSE 1

Separator(input) == FirstMatch(Separators(input))

\* the check of the bounds and the TimeSpan made of them
SpanOfBounds(start, end) ==
    IF ~start.ok \/ ~end.ok THEN TsErr("Timestamp")
    ELSE IF start.v >= end.v THEN TsErr("Range")
    ELSE TsOk(start.v, end.v)

\* groups 1 and 8 of a match whose separator is at p
SpanOfMatch(input, p) ==
    SpanOfBounds(IF p = 1 THEN Ok(I64_MIN) ELSE parse_ms(SubSeq(input, 1, p - 1)),
                 IF p = Len(input) THEN Ok(I64_MAX) ELSE parse_ms(SubSeq(input, p + 1, Len(input))))

parse_timespan(input) ==
    IF Separators(input) = {} THEN TsErr("Malformed")
    ELSE SpanOfMatch(input, Separator(input))

-----------------------------------------------------------------------------
(* main.rs: get_subtitles *)

\* BufRead::read_line over a whole text: each line keeps its terminator
RECURSIVE SplitLines(_)
SplitLines(t) ==
    IF t = <<>> THEN <<>>
    ELSE LET k == FirstIdx(t, {LF})
         IN  IF k = 0 THEN <<t>>
             ELSE <<SubSeq(t, 1, k)>> \o SplitLines(SubSeq(t, k + 1, Len(t)))

Arrow == <<" ", "-", "-", ">", " ">>

\* the number of digits s starts with
DigitRun(s) ==
    IF \E k \in 1..Len(s) : s[k] \notin Digit
    THEN (CHOOSE k \in 1..Len(s) : s[k] \notin Digit /\ \A j \in 1..(k - 1) : s[j] \in Digit) - 1
    ELSE Len(s)

\* -?\d+ at the start of s: the length it takes, 0 when it does not match
IntLen(s) ==
    IF s # <<>> /\ Head(s) = "-"
    THEN (IF DigitRun(Tail(s)) = 0 THEN 0 ELSE DigitRun(Tail(s)) + 1)
    ELSE DigitRun(s)

\* str::parse::<i64> / <i32>: an optional sign and digits, nothing else
ParseInt(s) ==
    IF s # <<>> /\ Head(s) \in {"-", "+"}
    THEN (IF ~IsDigits(Tail(s)) THEN Err
          ELSE Ok(IF Head(s) = "-" THEN -ParseNat(Tail(s)) ELSE ParseNat(Tail(s))))
    ELSE (IF ~IsDigits(s) THEN Err ELSE Ok(ParseNat(s)))

NoPos == [ok |-> FALSE, x1 |-> 0, x2 |-> 0, y1 |-> 0, y2 |-> 0]

\* The integer a field of the position suffix holds, after its label:
\* [ok, v, rest]
FieldValue(after, n) ==
    IF n > 0
    THEN [ok |-> TRUE, v |-> ParseInt(SubSeq(after, 1, n)).v, rest |-> SubSeq(after, n + 1, Len(after))]
    ELSE [ok |-> FALSE, v |-> 0, rest |-> <<>>]

\* One labelled field of the position suffix: the label, then -?\d+
PosField(s, label) ==
    IF StartsWith(s, label)
    THEN FieldValue(SubSeq(s, Len(label) + 1, Len(s)), IntLen(SubSeq(s, Len(label) + 1, Len(s))))
    ELSE [ok |-> FALSE, v |-> 0, rest |-> <<>>]

PosY2(x1, x2, y1, f) == IF f.ok THEN [ok |-> TRUE, x1 |-> x1, x2 |-> x2, y1 |-> y1, y2 |-> f.v] ELSE NoPos
PosY1(x1, x2, f) == IF f.ok THEN PosY2(x1, x2, f.v, PosField(f.rest, <<" ", "Y", "2", ":">>)) ELSE NoPos
PosX2(x1, f) == IF f.ok THEN PosY1(x1, f.v, PosField(f.rest, <<" ", "Y", "1", ":">>)) ELSE NoPos
PosX1(f) == IF f.ok THEN PosX2(f.v, PosField(f.rest, <<" ", "X", "2", ":">>)) ELSE NoPos

\* (\s+X1:(-?\d+) X2:(-?\d+) Y1:(-?\d+) Y2:(-?\d+)) at the start of s
MatchPosSuffix(s) ==
    IF s # <<>> /\ Head(s) \in White
    THEN PosX1(PosField(TrimStart(s, White), <<"X", "1", ":">>))
    ELSE NoPos

\* Where group 2, (.*), of the timespan-line regex ends when it starts at `from`:
\* it is greedy and `.` matches everything but a line feed, and what follows
\* it in the regex is optional, so it takes the rest of the line.
Group2End(b, from) ==
    IF FirstIdx(SubSeq(b, from, Len(b)), {LF}) = 0 THEN Len(b)
    ELSE from + FirstIdx(SubSeq(b, from, Len(b)), {LF}) - 2

\* the places in the first line of b where " --> " starts
Arrows(b) == {k \in 1..Group2End(b, 1) : k + 4 <= Group2End(b, 1) /\ SubSeq(b, k, k + 4) = Arrow}

\* the groups of a match whose arrow is at k and whose group 2 ends at e
TimesGroups(b, k, e, suffix) ==
    [ok |-> TRUE, g1 |-> SubSeq(b, 1, k - 1), g2 |-> SubSeq(b, k + 5, e),
     g3 |-> suffix.ok, pos |-> suffix]

TimesMatchAt(b, k, e) == TimesGroups(b, k, e, MatchPosSuffix(SubSeq(b, e + 1, Len(b))))

\* group 1 is greedy, so the arrow is the last one of the line
LastArrow(b, arrows) ==
    IF arrows = {} THEN [ok |-> FALSE, g1 |-> <<>>, g2 |-> <<>>, g3 |-> FALSE, pos |-> NoPos]
    ELSE TimesMatchAt(b, CHOOSE a \in arrows : \A a2 \in arrows : a2 <= a,
                      Group2End(b, (CHOOSE a \in arrows : \A a2 \in arrows : a2 <= a) + 5))

\* The captures of  (.*) --> (.*)(\s+X1:(-?\d+) X2:(-?\d+) Y1:(-?\d+) Y2:(-?\d+))?
\* on a line: [ok, g1, g2, g3 (whether group 3 took part), pos]
MatchTimesLine(b) == LastArrow(b, Arrows(b))

Position(x1, x2, y1, y2) == [x1 |-> x1, x2 |-> x2, y1 |-> y1, y2 |-> y2]

Subtitle(n, span, pos, lines) ==
    [number |-> n, time_span |-> span, position |-> pos, lines |-> lines]

\* The record the parts in hand make (the subs.push of both flush places)
PartSubtitle ==
    Subtitle(Unwrap(part_number), Unwrap(part_times), part_position, Unwrap(part_lines))

\* File::open and the locals of get_subtitles
GetSubtitlesOpen ==
    /\ pc = "open"
    /\ IF IsSome(fs.path)
       THEN /\ reader' = SplitLines(Unwrap(fs.path))
            /\ pc' = "get_subtitles"
            /\ err' = err
       ELSE /\ reader' = <<>>
            /\ pc' = "exit"
            /\ err' = "Io"
    /\ subs' = <<>>
    /\ line_ending' = None
    /\ part_number' = None
    /\ part_times' = None
    /\ part_position' = None
    /\ part_lines' = None
    /\ buf' = <<>>
    /\ UNCHANGED <<opt, fs, idx, orig, ts_in, ts_out, rt_text>>

\* A variant of the turn at the end of the input that returns what was
\* appended before, without the record in hand
GetSubtitlesEof_NoFlush ==
    /\ pc = "get_subtitles"
    /\ reader = <<>>
    /\ buf' = <<>>
    /\ line_ending' = IF IsSome(line_ending) THEN line_ending ELSE Some(<<LF>>)
    /\ pc' = "modify"
    /\ idx' = 0
    /\ orig' = subs
    /\ UNCHANGED <<subs, part_number, part_times, part_position, part_lines,
                   err, opt, fs, reader, ts_in, ts_out, rt_text>>

\* A variant of the turn at the end of the input that appends the record in
\* hand as soon as its timespan was read
GetSubtitlesEof_OnTimes ==
    /\ pc = "get_subtitles"
    /\ reader = <<>>
    /\ buf' = <<>>
    /\ IF IsSome(part_times)
       THEN /\ subs' = Append(subs, Subtitle(Unwrap(part_number), Unwrap(part_times), part_position,
                                             IF IsSome(part_lines) THEN Unwrap(part_lines) ELSE <<>>))
            /\ part_number' = None
            /\ part_times' = None
            /\ part_position' = None
            /\ part_lines' = None
       ELSE UNCHANGED <<subs, part_number, part_times, part_position, part_lines>>
    /\ line_ending' = IF IsSome(line_ending) THEN line_ending ELSE Some(<<LF>>)
    /\ pc' = "modify"
    /\ idx' = 0
    /\ orig' = subs'
    /\ UNCHANGED <<err, opt, fs, reader, ts_in, ts_out, rt_text>>

\* One turn of the loop in which read_line returns Ok(0)
GetSubtitlesEof ==
    /\ pc = "get_subtitles"
    /\ reader = <<>>
    /\ buf' = <<>>
    /\ IF IsSome(part_lines)
       THEN /\ subs' = Append(subs, PartSubtitle)
            /\ part_number' = None
            /\ part_times' = None
            /\ part_position' = None
            /\ part_lines' = None
       ELSE UNCHANGED <<subs, part_number, part_times, part_position, part_lines>>
    /\ line_ending' = IF IsSome(line_ending) THEN line_ending ELSE Some(<<LF>>)
    /\ pc' = "modify"
    /\ idx' = 0
    /\ orig' = subs'
    /\ UNCHANGED <<err, opt, fs, reader, ts_in, ts_out, rt_text>>

\* main.rs 157-175: the TimeSpan and the Position of the captures
TimesOfCaptures(captures, start_ms, end_ms) ==
    IF ~captures.ok \/ ~start_ms.ok \/ ~end_ms.ok
    THEN [ok |-> FALSE, times |-> None, position |-> None]
    ELSE [ok |-> TRUE,
          times |-> Some(TimeSpan(start_ms.v, end_ms.v)),
          position |-> IF captures.g3
                       THEN Some(Position(captures.pos.x1, captures.pos.x2,
                                          captures.pos.y1, captures.pos.y2))
                       ELSE None]

TimesOfMatch(captures) == TimesOfCaptures(captures, parse_ms(captures.g1), parse_ms(captures.g2))

\* What a line read while the timespan is awaited becomes:
\* [ok, times, position]
TimesLine(b) == TimesOfMatch(MatchTimesLine(b))

\* the branch of the loop for a record number
NumberRead(n) ==
    /\ IF n.ok
       THEN part_number' = Some(n.v) /\ UNCHANGED <<pc, err>>
       ELSE part_number' = part_number /\ pc' = "exit" /\ err' = "SubtitleParse"
    /\ UNCHANGED <<subs, part_times, part_position, part_lines>>

\* the branch of the loop for a timespan line
TimesRead(t) ==
    /\ IF t.ok
       THEN /\ part_times' = t.times
            /\ part_position' = t.position
            /\ UNCHANGED <<pc, err>>
       ELSE /\ UNCHANGED <<part_times, part_position>>
            /\ pc' = "exit"
            /\ err' = "SubtitleParse"
    /\ UNCHANGED <<subs, part_number, part_lines>>

\* One turn of the loop in which read_line returns a line
GetSubtitlesLine ==
    /\ pc = "get_subtitles"
    /\ reader # <<>>
    /\ buf' = Head(reader)
    /\ reader' = Tail(reader)
    /\ line_ending' = IF IsSome(line_ending) THEN line_ending
                      ELSE IF EndsWith(buf', <<CR, LF>>) THEN Some(<<CR, LF>>)
                      ELSE Some(<<LF>>)
    /\ IF TrimBoth(buf', White) = <<>>
       THEN /\ IF IsSome(part_lines)
               THEN /\ subs' = Append(subs, PartSubtitle)
                    /\ part_number' = None
                    /\ part_times' = None
                    /\ part_position' = None
                    /\ part_lines' = None
               ELSE UNCHANGED <<subs, part_number, part_times, part_position, part_lines>>
            /\ UNCHANGED <<pc, err>>
       ELSE IF part_number = None
       THEN NumberRead(ParseInt(TrimBoth(buf', White)))
       ELSE IF part_times = None
       THEN TimesRead(TimesLine(buf'))
       ELSE /\ part_lines' = Some((IF IsSome(part_lines) THEN Unwrap(part_lines) ELSE <<>>) \o <<buf'>>)
            /\ UNCHANGED <<subs, part_number, part_times, part_position, pc, err>>
    /\ UNCHANGED <<opt, fs, idx, orig, ts_in, ts_out, rt_text>>

-----------------------------------------------------------------------------
(* main.rs: modify *)

AnTag == <<"{", BSL, "a", "n">>
An8 == <<"{", BSL, "a", "n", "8", "}">>

\* The length of the match of \{\\an\d+\} at the start of a line, 0 when
\* the line does not start with the tag; nd is the number of digits after {\an
TagOfDigits(line, nd) ==
    IF nd > 0 /\ Len(line) > Len(AnTag) + nd /\ line[Len(AnTag) + nd + 1] = "}"
    THEN Len(AnTag) + nd + 1
    ELSE 0

TagLen(line) ==
    IF StartsWith(line, AnTag)
    THEN TagOfDigits(line, DigitRun(SubSeq(line, Len(AnTag) + 1, Len(line))))
    ELSE 0

\* A variant of the replacement that keeps a tag the line starts with
ToTopLine_Prepend(line) == An8 \o line

\* Regex ^(\{\\an\d+\})? replaced by {\an8}
ToTopLine(line) == An8 \o SubSeq(line, TagLen(line) + 1, Len(line))

\* Regex ^\{\\an\d+\} replaced by the empty string
ToBottomLine(line) == SubSeq(line, TagLen(line) + 1, Len(line))

AnyContains(intervals, ms) == \E k \in 1..Len(intervals) : contains(intervals[k], ms)

\* A variant of the conversion that rounds down, apart from it on negative values
FloorDiv(a, b) == a \div b

\* `as i64` of a float: the fraction is dropped.  A scale is a fraction
\* [num, den] whose denominator is a power of two, so that the product is exact.
TruncDiv(a, b) == IF a >= 0 THEN a \div b ELSE -((-a) \div b)

ScaleBound(scale, pivot, bound) == pivot + TruncDiv(scale.num * (bound - pivot), scale.den)

\* main.rs 235-247: the offset and the scale of one record
ApplyTiming(span, o) ==
    IF span.start_ms >= o.offset_start_ms
    THEN LET start_ms == span.start_ms + o.offset_ms
             end_ms   == span.end_ms + o.offset_ms
             pivot    == IF IsSome(o.scale_pivot) THEN Unwrap(o.scale_pivot) ELSE 0
         IN  IF IsSome(o.scale)
             THEN TimeSpan(ScaleBound(Unwrap(o.scale), pivot, start_ms),
                           ScaleBound(Unwrap(o.scale), pivot, end_ms))
             ELSE TimeSpan(start_ms, end_ms)
    ELSE span

\* main.rs 207-233: [ok, sub]; ok is FALSE where the code bails
ApplyPlacement(sub, o) ==
    IF AnyContains(o.to_top, sub.time_span.start_ms)
    THEN IF IsSome(sub.position)
         THEN [ok |-> FALSE, sub |-> sub]
         ELSE [ok |-> TRUE, sub |-> [sub EXCEPT !.lines[1] = ToTopLine(sub.lines[1])]]
    ELSE IF AnyContains(o.to_bottom, sub.time_span.start_ms)
    THEN [ok |-> TRUE, sub |-> [sub EXCEPT !.position = None,
                                           !.lines[1] = ToBottomLine(sub.lines[1])]]
    ELSE [ok |-> TRUE, sub |-> sub]

\* A variant that numbers the records from 0
Renumber_FromZero(sub, i, o) == IF o.renumber_offset THEN [sub EXCEPT !.number = i] ELSE sub

\* main.rs 203-205
Renumber(sub, i, o) == IF o.renumber_offset THEN [sub EXCEPT !.number = i + 1] ELSE sub

\* The body of modify's loop for data.subs[i] (i counted from 0): [ok, sub]
TimingOfPlaced(placed, o) ==
    IF ~placed.ok THEN placed
    ELSE [ok |-> TRUE,
          sub |-> [placed.sub EXCEPT !.time_span = ApplyTiming(placed.sub.time_span, o)]]

ModifySub(sub, i, o) == TimingOfPlaced(ApplyPlacement(Renumber(sub, i, o), o), o)

\* data.subs[i] after the turn, and where the loop goes
StoreModified(r) ==
    /\ subs' = [subs EXCEPT ![idx + 1] = r.sub]
    /\ IF r.ok
       THEN idx' = idx + 1 /\ UNCHANGED <<pc, err>>
       ELSE idx' = idx /\ pc' = "exit" /\ err' = "PositionOverrideConflict"

\* One turn of modify's loop
ModifyRecord ==
    /\ pc = "modify"
    /\ idx < Len(subs)
    /\ StoreModified(ModifySub(subs[idx + 1], idx, opt))
    /\ UNCHANGED <<opt, fs, reader, buf, line_ending, part_number, part_times,
                   part_position, part_lines, orig, ts_in, ts_out, rt_text>>

\* modify returns Ok(())
ModifyReturn ==
    /\ pc = "modify"
    /\ idx = Len(subs)
    /\ pc' = "backup"
    /\ UNCHANGED <<err, opt, fs, reader, buf, line_ending, part_number, part_times,
                   part_position, part_lines, subs, idx, orig, ts_in, ts_out, rt_text>>

-----------------------------------------------------------------------------
(* main.rs: main, backup, write_to_disk, restore *)

\* main after init(): the branch on opt.extract
MainStart ==
    /\ pc = "main"
    /\ ~opt.extract
    /\ pc' = "open"
    /\ UNCHANGED <<err, opt, fs, reader, buf, line_ending, part_number, part_times,
                   part_position, part_lines, subs, idx, orig, ts_in, ts_out, rt_text>>

\* extract_subtitles: ffmpeg writes another file, or none; the run ends
ExtractSubtitles ==
    /\ pc = "main"
    /\ opt.extract
    /\ pc' = "exit"
    /\ err' \in {"none", "Extract"}
    /\ UNCHANGED <<opt, fs, reader, buf, line_ending, part_number, part_times,
                   part_position, part_lines, subs, idx, orig, ts_in, ts_out, rt_text>>

\* backup: rename(path, path.bak), which may fail
Backup ==
    /\ pc = "backup"
    /\ \/ /\ fs' = [path |-> None, bak |-> fs.path]
          /\ pc' = "write_to_disk"
          /\ err' = err
       \/ /\ fs' = fs
          /\ pc' = "exit"
          /\ err' = "Io"
    /\ UNCHANGED <<opt, reader, buf, line_ending, part_number, part_times,
                   part_position, part_lines, subs, idx, orig, ts_in, ts_out, rt_text>>

\* What is written: the Display of the SubData
Output == FmtSubData(subs, Unwrap(line_ending))

\* The ways write_to_disk can end.  File::create may fail (no file).  The text
\* goes through a BufWriter that is a temporary of the write! statement: a
\* write that fails while the buffer is being filled is reported, and the
\* buffer's last part is flushed when the temporary is dropped, where a
\* failure is ignored.
\* [path after the call, whether the call returns Ok]
WriteOutcomes(text) ==
    {[path |-> None, ok |-> FALSE]}
        \cup {[path |-> Some(SubSeq(text, 1, n)), ok |-> FALSE] : n \in {0}}
        \cup {[path |-> Some(SubSeq(text, 1, n)), ok |-> TRUE] : n \in {0, Len(text)}}

\* write_to_disk and the branch of main on its result
WriteToDisk ==
    /\ pc = "write_to_disk"
    /\ \E w \in WriteOutcomes(Output) :
          /\ fs' = [fs EXCEPT !.path = w.path]
          /\ IF w.ok
             THEN pc' = "exit" /\ err' = err
             ELSE pc' = "restore" /\ err' = "Write"
    /\ UNCHANGED <<opt, reader, buf, line_ending, part_number, part_times,
                   part_position, part_lines, subs, idx, orig, ts_in, ts_out, rt_text>>

\* restore: rename(path.bak, path), which may fail; then bail!(err)
Restore ==
    /\ pc = "restore"
    /\ \/ /\ fs' = [path |-> fs.bak, bak |-> None]
          /\ err' = err
       \/ /\ fs' = fs
          /\ err' = "Io"
    /\ pc' = "exit"
    /\ UNCHANGED <<opt, reader, buf, line_ending, part_number, part_times,
                   part_position, part_lines, subs, idx, orig, ts_in, ts_out, rt_text>>

-----------------------------------------------------------------------------
(* Calls of parse_timespan and the formatting that starts a round trip *)

\* structopt's parse(try_from_str = parse_timespan) of one argument value
ParseTimespan ==
    /\ pc = "parse_timespan"
    /\ ts_out' = Some(parse_timespan(ts_in))
    /\ pc' = "exit"
    /\ UNCHANGED <<err, opt, fs, reader, buf, line_ending, part_number, part_times,
                   part_position, part_lines, subs, idx, orig, ts_in, rt_text>>

\* A call of parse_ms on a text
ParseMs ==
    /\ pc = "parse_ms"
    /\ ts_out' = Some(parse_ms(ts_in))
    /\ pc' = "exit"
    /\ UNCHANGED <<err, opt, fs, reader, buf, line_ending, part_number, part_times,
                   part_position, part_lines, subs, idx, orig, ts_in, rt_text>>

\* A call of parse_decimal_part on a text of digits, in a build with or
\* without overflow checks
ParseDecimalPart ==
    /\ pc = "parse_decimal_part"
    /\ \E checks \in BOOLEAN :
          /\ ts_out' = Some(DecimalPart(ts_in, checks))
          /\ pc' = IF DecimalPart(ts_in, checks).panic THEN "panic" ELSE "exit"
    /\ UNCHANGED <<err, opt, fs, reader, buf, line_ending, part_number, part_times,
                   part_position, part_lines, subs, idx, orig, ts_in, rt_text>>

\* format!("{}", ms) of a Milliseconds, in a build with or without overflow
\* checks: -self.0 overflows for i64::MIN only
FormatMs ==
    /\ pc = "format_ms"
    /\ \E checks \in BOOLEAN :
          IF ts_in = I64_MIN /\ checks
          THEN rt_text' = None /\ pc' = "panic"
          ELSE rt_text' = Some(FmtMilliseconds(ts_in)) /\ pc' = "parse_back"
    /\ UNCHANGED <<err, opt, fs, reader, buf, line_ending, part_number, part_times,
                   part_position, part_lines, subs, idx, orig, ts_in, ts_out>>

\* parse_ms on the text FormatMs wrote
ParseMsBack ==
    /\ pc = "parse_back"
    /\ ts_out' = Some(parse_ms(Unwrap(rt_text)))
    /\ pc' = "exit"
    /\ UNCHANGED <<err, opt, fs, reader, buf, line_ending, part_number, part_times,
                   part_position, part_lines, subs, idx, orig, ts_in, rt_text>>

\* format!("{}", data) of a Document, stored where get_subtitles reads
FormatDocument ==
    /\ pc = "format"
    /\ rt_text' = Some(Output)
    /\ fs' = [fs EXCEPT !.path = Some(Output)]
    /\ pc' = "open"
    /\ UNCHANGED <<err, opt, reader, buf, line_ending, part_number, part_times,
                   part_position, part_lines, subs, idx, orig, ts_in, ts_out>>

-----------------------------------------------------------------------------
(* Bounds and the inputs drawn within them *)

MaxLines == 5       \* lines of an input file
MaxRecords == 2     \* records of a Document handed to modify or to the formatter
MaxTsLen == 6       \* characters of an argument of parse_timespan
MaxMsLen == 6       \* characters of an argument of parse_ms
MaxDigits == 21     \* digits between the zeros of an argument of parse_decimal_part
MaxZeros == 3       \* zeros before, and after, those digits
MaxMs == 1000       \* magnitude of the Milliseconds formatted one by one

SeqsUpTo(S, n) == UNION {[1..k -> S] : k \in 0..n}

SpanA == TimeSpan(8614, 10373)
SpanB == TimeSpan(2000, 3000)
Pos1234 == Position(1, 2, 3, 4)

Hello == <<"H", "e", "l", "l", "o", LF>>
TaggedHi == <<"{", BSL, "a", "n", "5", "}", "H", "i", LF>>
There == <<"t", "h", "e", "r", "e", LF>>
\* a line that starts like a tag and has no digit in it
Untagged == <<"{", BSL, "a", "n", "}", "H", "i", LF>>

\* The lines input files are made of
NumberLine == <<"1", LF>>
BlankLine == <<LF>>
TimesLineA == FmtTimeSpan(SpanA) \o <<LF>>
TimesLinePos == FmtTimeSpan(SpanB) \o <<" ", " ">> \o FmtPosition(Pos1234) \o <<LF>>
TimesLineInverted == FmtTimeSpan(TimeSpan(3000, 2000)) \o <<LF>>

ParseLines == {NumberLine, BlankLine, TimesLineA, TimesLinePos, TimesLineInverted, Hello}

Files == {Concat(ls) : ls \in SeqsUpTo(ParseLines, MaxLines)}

\* OptFinal
OptFinal(scale, scale_pivot, offset_ms, offset_start_ms, renumber_offset, to_top, to_bottom, extract) ==
    [scale |-> scale, scale_pivot |-> scale_pivot, offset_ms |-> offset_ms,
     offset_start_ms |-> offset_start_ms, renumber_offset |-> renumber_offset,
     to_top |-> to_top, to_bottom |-> to_bottom, extract |-> extract]

\* What validate returns when no option is given a value
DefaultOpt == OptFinal(None, None, 0, I64_MIN, FALSE, <<>>, <<>>, FALSE)

Frac(n, d) == [num |-> n, den |-> d]

ScaleChoices ==
    {<<None, None>>, <<Some(Frac(2, 1)), None>>, <<Some(Frac(1, 2)), Some(9001)>>}

ModOpts ==
    {OptFinal(sp[1], sp[2], off, start, ren, top, bottom, FALSE) :
        sp \in ScaleChoices, off \in {0, 2000}, start \in {I64_MIN, 5000},
        ren \in BOOLEAN,
        top \in {<<>>, <<TimeSpan(100, 200), TimeSpan(8614, 9000)>>},
        bottom \in {<<>>, <<TimeSpan(I64_MIN, 2000)>>}}

ModRecords ==
    {Subtitle(IF span = SpanA THEN 1 ELSE 7, span, pos, lines) :
        span \in {SpanA, SpanB}, pos \in {None, Some(Pos1234)},
        lines \in {<<Hello>>, <<TaggedHi, There>>, <<Untagged>>}}

ModDocs == SeqsUpTo(ModRecords, MaxRecords)

RtRecords ==
    {Subtitle(1, TimeSpan(0, 1000), pos, lines) :
        pos \in {None, Some(Pos1234)},
        lines \in {<<<<"l", "1", LF>>, <<"l", "2", LF>>>>, <<<<"l", "3">>>>, <<<<"l", "1", CR, LF>>>>}}

RtDocs == SeqsUpTo(RtRecords, MaxRecords)

TsChars == {"-", "1", "2", ".", ":"}

TsInputs == SeqsUpTo(TsChars, MaxTsLen)

\* n times the character c
Repeat(c, n) == [k \in 1..n |-> c]

\* The digits of a fraction between its leading and its trailing zeros: at
\* most three of any kind, or one digit written up to MaxDigits times
DecimalCores ==
    SeqsUpTo({"1", "5", "9"}, 3)
        \cup {Repeat(c, n) : c \in {"1", "2", "9"}, n \in 1..MaxDigits}

DecimalInputs ==
    {Repeat("0", z) \o core \o Repeat("0", t) :
        z \in 0..MaxZeros, t \in 0..MaxZeros, core \in DecimalCores}

\* The Milliseconds that are formatted: every value within MaxMs of zero, values
\* around a minute and an hour, of more than 99 hours, and i64::MIN
MsValues ==
    (-MaxMs .. MaxMs)
        \cup {59999, 60000, -60000, 3599999, 3600000, -3600001, 65565123, -65565123,
              360000000, -360000001, I64_MIN}

MsChars == {"0", "1", "6", ":"}

MsInputs == SeqsUpTo(MsChars, MaxMsLen)

\* The postconditions of Opt::validate that an OptFinal carries.  An offset
\* that comes from --from and --to is computed after the check that refuses
\* --offset with a scale, so an offset and a scale can come together.
Overlap(a, b) ==
    \/ contains(a, b.start_ms) \/ contains(a, b.end_ms)
    \/ contains(b, a.start_ms) \/ contains(b, a.end_ms)

Validated(o) ==
    /\ ~(o.offset_start_ms # I64_MIN /\ IsSome(o.scale))
    /\ ~(IsSome(o.scale_pivot) /\ o.scale = None)
    /\ \A a \in 1..Len(o.to_top) : \A b \in 1..Len(o.to_bottom) :
          ~Overlap(o.to_top[a], o.to_bottom[b])
    /\ o.extract =>
          /\ ~o.renumber_offset /\ o.scale = None /\ o.scale_pivot = None
          /\ o.offset_ms = 0 /\ o.offset_start_ms = I64_MIN
          /\ o.to_top = <<>> /\ o.to_bottom = <<>>

MainOpts == {o \in ModOpts \cup {[DefaultOpt EXCEPT !.extract = TRUE]} : Validated(o)}

OneRecord == NumberLine \o TimesLineA \o Hello
MainFiles ==
    {<<>>,
     OneRecord,
     OneRecord \o BlankLine \o <<"7", LF>> \o FmtTimeSpan(SpanB) \o <<LF>> \o TaggedHi \o There,
     OneRecord \o BlankLine \o NumberLine \o TimesLinePos \o Hello,
     OneRecord \o BlankLine \o NumberLine \o TimesLineA}

-----------------------------------------------------------------------------
(* Specifications *)

\* The variables a specification does not use
Idle(unused) ==
    /\ ("err" \in unused) => err = "none"
    /\ ("opt" \in unused) => opt = DefaultOpt
    /\ ("fs" \in unused) => fs = [path |-> None, bak |-> None]
    /\ ("parser" \in unused) =>
          /\ reader = <<>> /\ buf = <<>> /\ line_ending = None
          /\ part_number = None /\ part_times = None
          /\ part_position = None /\ part_lines = None
    /\ ("subs" \in unused) => subs = <<>> /\ idx = 0 /\ orig = <<>>
    /\ ("ts" \in unused) => ts_in = <<>> /\ ts_out = None
    /\ ("rt" \in unused) => rt_text = None

\* A run of main, from the return of init()
Init ==
    /\ pc = "main"
    /\ opt \in MainOpts
    /\ \E file \in MainFiles : fs = [path |-> Some(file), bak |-> None]
    /\ Idle({"err", "parser", "subs", "ts", "rt"})

Next ==
    \/ MainStart
    \/ ExtractSubtitles
    \/ GetSubtitlesOpen
    \/ GetSubtitlesLine
    \/ GetSubtitlesEof
    \/ ModifyRecord
    \/ ModifyReturn
    \/ Backup
    \/ WriteToDisk
    \/ Restore

Spec == Init /\ [][Next]_vars

\* get_subtitles on every file of at most MaxLines lines
InitParse ==
    /\ pc = "open"
    /\ \E file \in Files : fs = [path |-> Some(file), bak |-> None]
    /\ Idle({"err", "opt", "parser", "subs", "ts", "rt"})

NextParse == GetSubtitlesOpen \/ GetSubtitlesLine \/ GetSubtitlesEof

SpecParse == InitParse /\ [][NextParse]_vars

\* modify on every Document of at most MaxRecords records
InitModify ==
    /\ pc = "modify"
    /\ subs \in ModDocs
    /\ orig = subs
    /\ idx = 0
    /\ opt \in ModOpts
    /\ reader = <<>> /\ buf = <<>> /\ line_ending = Some(<<LF>>)
    /\ part_number = None /\ part_times = None
    /\ part_position = None /\ part_lines = None
    /\ Idle({"err", "fs", "ts", "rt"})

NextModify == ModifyRecord \/ ModifyReturn

SpecModify == InitModify /\ [][NextModify]_vars

\* parse_timespan on every text of at most MaxTsLen characters
InitTs ==
    /\ pc = "parse_timespan"
    /\ ts_in \in TsInputs
    /\ ts_out = None
    /\ Idle({"err", "opt", "fs", "parser", "subs", "rt"})

NextTs == ParseTimespan

SpecTs == InitTs /\ [][NextTs]_vars

\* parse_ms on every text of at most MaxMsLen characters
InitMs ==
    /\ pc = "parse_ms"
    /\ ts_in \in MsInputs
    /\ ts_out = None
    /\ Idle({"err", "opt", "fs", "parser", "subs", "rt"})

NextMs == ParseMs

SpecMs == InitMs /\ [][NextMs]_vars

\* format!("{}", ms), then parse_ms on the text, for every ms of MsValues
InitFmt ==
    /\ pc = "format_ms"
    /\ ts_in \in MsValues
    /\ ts_out = None
    /\ Idle({"err", "opt", "fs", "parser", "subs", "rt"})

NextFmt == FormatMs \/ ParseMsBack

SpecFmt == InitFmt /\ [][NextFmt]_vars

\* parse_decimal_part on fractions of every length up to MaxDigits + 2 * MaxZeros
InitDecimal ==
    /\ pc = "parse_decimal_part"
    /\ ts_in \in DecimalInputs
    /\ ts_out = None
    /\ Idle({"err", "opt", "fs", "parser", "subs", "rt"})

NextDecimal == ParseDecimalPart

SpecDecimal == InitDecimal /\ [][NextDecimal]_vars

\* Both parsers that make a TimeSpan
InitSpans == InitTs \/ InitParse

NextSpans == ParseTimespan \/ GetSubtitlesOpen \/ GetSubtitlesLine \/ GetSubtitlesEof

SpecSpans == InitSpans /\ [][NextSpans]_vars

\* A Document formatted and parsed again
InitRt ==
    /\ pc = "format"
    /\ subs \in RtDocs
    /\ orig = subs
    /\ idx = 0
    /\ line_ending \in {Some(<<LF>>), Some(<<CR, LF>>)}
    /\ reader = <<>> /\ buf = <<>>
    /\ part_number = None /\ part_times = None
    /\ part_position = None /\ part_lines = None
    /\ rt_text = None
    /\ Idle({"err", "opt", "fs", "ts"})

NextRt == FormatDocument \/ GetSubtitlesOpen \/ GetSubtitlesLine \/ GetSubtitlesEof

SpecRt == InitRt /\ [][NextRt]_vars

-----------------------------------------------------------------------------
(* Properties *)

\* the run stands where get_subtitles has returned Ok(SubData)
Returned == pc = "modify" /\ idx = 0

\* the run ended in get_subtitles, with an error
ParseFailed == pc = "exit" /\ err = "SubtitleParse"

\* C1 (as claimed): a Document that is formatted, parsed by get_subtitles and
\* formatted again gives the text of the first formatting; in particular the
\* parse succeeds.
C1_RoundTrip ==
    (IsSome(rt_text) /\ (Returned \/ pc = "exit")) =>
        /\ Returned
        /\ FmtSubData(subs, Unwrap(line_ending)) = Unwrap(rt_text)

\* C2 (as claimed): while the timespan is awaited, a line `T --> T` followed by
\* two spaces and X1:1 X2:2 Y1:3 Y2:4 is accepted and gives the two timestamps
\* and the Position (1, 2, 3, 4); the line without the suffix is accepted and
\* leaves the Position empty.
C2_PositionSuffix ==
    [][(pc = "get_subtitles" /\ IsSome(part_number) /\ part_times = None /\ reader # <<>>) =>
          /\ Head(reader) = TimesLinePos =>
                /\ pc' = "get_subtitles"
                /\ part_times' = Some(SpanB)
                /\ part_position' = Some(Pos1234)
          /\ Head(reader) = TimesLineA =>
                /\ pc' = "get_subtitles"
                /\ part_times' = Some(SpanA)
                /\ part_position' = None]_vars

\* C3 (as claimed): the file at the input path is renamed or written only
\* after get_subtitles and modify have both succeeded; an error of either ends
\* the run with no backup and the file as it was; and a write that does not
\* leave the whole output at the path is followed by restore, which puts the
\* backup at the path again (unless its rename fails).
C3_Atomic ==
    [][/\ (fs' # fs) => pc \in {"backup", "write_to_disk", "restore"}
       /\ (pc' = "backup") => (pc = "modify" /\ idx = Len(subs) /\ err = "none")
       /\ (err' \in {"SubtitleParse", "PositionOverrideConflict"}) =>
             (pc' = "exit" /\ fs' = fs /\ fs.bak = None)
       /\ (pc = "write_to_disk" /\ fs'.path # Some(Output)) => pc' = "restore"
       /\ (pc = "restore") => (fs'.path = fs.bak \/ err' = "Io")]_vars

\* C3: a run that ended without an error, with the original in the backup
\* only and less than the output at the path
C3_SilentWriteFailure ==
    /\ pc = "exit" /\ err = "none"
    /\ IsSome(fs.bak) /\ IsSome(line_ending)
    /\ Output # <<>> /\ fs.path = Some(<<>>)

\* t is x / den with its fraction dropped, stated by the bounds that single
\* it out: it lies between 0 and x / den and is less than 1 away from it
IsTruncOf(t, x, den) ==
    IF x >= 0 THEN t >= 0 /\ t * den <= x /\ x < (t + 1) * den
    ELSE t <= 0 /\ t * den >= x /\ x > (t - 1) * den

\* what the claim says of one bound: `was` before modify, `now` after it
C4_Bound(was, now, o) ==
    LET shifted == was + o.offset_ms
        pivot   == IF IsSome(o.scale_pivot) THEN Unwrap(o.scale_pivot) ELSE 0
    IN  IF IsSome(o.scale)
        THEN IsTruncOf(now - pivot, Unwrap(o.scale).num * (shifted - pivot), Unwrap(o.scale).den)
        ELSE now = shifted

C4_Record(was, now, o) ==
    IF was.start_ms >= o.offset_start_ms
    THEN /\ C4_Bound(was.start_ms, now.start_ms, o)
         /\ C4_Bound(was.end_ms, now.end_ms, o)
    ELSE now = was

\* C4: every record modify has passed has the time_span the claim gives it:
\* shifted by offset_ms and then scaled about the unshifted pivot, with the
\* fraction dropped, when its original start is >= offset_start_ms, and
\* unchanged otherwise; (8614, 10373) shifted by 2000 is (10614, 12373), and
\* scaled by 2 about 0 in addition it is (21228, 24746).
C4_Timing ==
    \A k \in 1..idx :
        /\ C4_Record(orig[k].time_span, subs[k].time_span, opt)
        /\ (/\ orig[k].time_span = SpanA /\ opt.offset_ms = 2000
            /\ opt.offset_start_ms <= 8614 /\ opt.scale_pivot = None) =>
              /\ opt.scale = None => subs[k].time_span = TimeSpan(10614, 12373)
              /\ opt.scale = Some(Frac(2, 1)) => subs[k].time_span = TimeSpan(21228, 24746)

\* C4: modify has passed a record whose start, 387 below the pivot, was
\* halved to 193 below it, and a record that starts before offset_start_ms
C4_Reached ==
    /\ idx = 2 /\ Len(subs) = 2
    /\ orig[1].time_span = SpanA /\ orig[2].time_span = SpanB
    /\ opt.offset_start_ms = 5000 /\ opt.offset_ms = 0
    /\ opt.scale = Some(Frac(1, 2)) /\ opt.scale_pivot = Some(9001)
    /\ subs[1].time_span = TimeSpan(8808, 9687)
    /\ subs[2].time_span = SpanB

\* the start of the record lies in one of the intervals, bounds included
StartsIn(intervals, sub) ==
    \E k \in 1..Len(intervals) :
        intervals[k].start_ms <= sub.time_span.start_ms
            /\ sub.time_span.start_ms <= intervals[k].end_ms

\* the record, as modify received it, is one the claim says modify fails at
C5_Conflicts(sub) == StartsIn(opt.to_top, sub) /\ IsSome(sub.position)

\* C5: modify ends with PositionOverrideConflict exactly when it reaches a
\* record whose original start lies in a to_top interval and which has a
\* Position: the record it failed at is such a record, and no record it has
\* passed is one; so a record outside every to_top interval never causes
\* the error, whatever to_bottom, the offset and the scale are.
C5_Conflict ==
    /\ (err = "PositionOverrideConflict") =>
          (pc = "exit" /\ idx < Len(orig) /\ C5_Conflicts(orig[idx + 1]))
    /\ \A k \in 1..idx : ~C5_Conflicts(orig[k])
    /\ (pc = "backup") => (err = "none" /\ idx = Len(orig))

\* C5: modify failed at its second record, which starts on the lower bound
\* of a to_top interval, after passing a first one that has a Position and
\* starts in a to_bottom interval
C5_Reached ==
    /\ err = "PositionOverrideConflict" /\ idx = 1
    /\ orig[2].time_span.start_ms = 8614
    /\ IsSome(orig[1].position) /\ StartsIn(opt.to_bottom, orig[1])
    /\ opt.offset_ms = 2000

\* the line starts with {\an, n digits and }
HasTag(line, n) ==
    /\ Len(line) >= n + 5
    /\ SubSeq(line, 1, 4) = <<"{", BSL, "a", "n">>
    /\ \A j \in 5..(n + 4) : line[j] \in Digit
    /\ line[n + 5] = "}"

\* the line without the {\anN} tag it starts with, the line itself when it
\* starts with none
Untag(line) ==
    IF \E n \in 1..Len(line) : HasTag(line, n)
    THEN SubSeq(line, (CHOOSE n \in 1..Len(line) : HasTag(line, n)) + 6, Len(line))
    ELSE line

C6_Record(was, now) ==
    /\ Len(now.lines) = Len(was.lines)
    /\ \A j \in 2..Len(was.lines) : now.lines[j] = was.lines[j]
    /\ (StartsIn(opt.to_top, was) /\ was.position = None) =>
          /\ now.lines[1] = <<"{", BSL, "a", "n", "8", "}">> \o Untag(was.lines[1])
          /\ ToTopLine(now.lines[1]) = now.lines[1]
    /\ (~StartsIn(opt.to_top, was) /\ StartsIn(opt.to_bottom, was)) =>
          /\ now.position = None
          /\ now.lines[1] = Untag(was.lines[1])
    /\ (~StartsIn(opt.to_top, was) /\ ~StartsIn(opt.to_bottom, was)) =>
          /\ now.position = was.position
          /\ now.lines = was.lines

\* C6: of every record modify has passed: one without Position that starts
\* in a to_top interval has {\an8} and its first line without the tag it
\* started with as its first line, which to_top applied again leaves as it
\* is; one that starts in a to_bottom interval and in no to_top interval has
\* no Position and its first line without the tag it started with; one that
\* starts in neither keeps its Position and its lines; the lines after the
\* first are kept in every case.
C6_Placement == \A k \in 1..idx : C6_Record(orig[k], subs[k])

\* C6: modify has passed a tagged record it forced to the top and a tagged
\* record with a Position it forced to the bottom
C6_Reached ==
    /\ idx = 2
    /\ orig[1].time_span = SpanA /\ orig[1].lines = <<TaggedHi, There>>
    /\ subs[1].lines = <<<<"{", BSL, "a", "n", "8", "}", "H", "i", LF>>, There>>
    /\ orig[2].time_span = SpanB /\ orig[2].lines = <<TaggedHi, There>>
    /\ IsSome(orig[2].position) /\ subs[2].position = None
    /\ subs[2].lines = <<<<"H", "i", LF>>, There>>

\* a line of white space only
IsBlank(line) == \A k \in 1..Len(line) : line[k] \in White

\* the line without its white space
Unspaced(line) == SelectSeq(line, LAMBDA c : c \notin White)

\* the loop of get_subtitles is about to read a blank line or the end of the input
AtBlankOrEnd == pc = "get_subtitles" /\ (reader = <<>> \/ IsBlank(Head(reader)))

RECURSIVE Incomplete(_, _)
Incomplete(lines, at) ==
    IF lines = <<>> \/ IsBlank(Head(lines))
    THEN \/ at \in {"timespan", "first"}
         \/ lines # <<>> /\ Incomplete(Tail(lines), "number")
    ELSE Incomplete(Tail(lines),
                    CASE at = "number" -> "timespan"
                      [] at = "timespan" -> "first"
                      [] OTHER -> "text")

\* C8 (as claimed): get_subtitles returns no Document from an input that
\* holds a number line with no timespan line after it, or a number and a
\* timespan line with no text line after them.
C8_IncompleteRejected ==
    Returned => ~Incomplete(SplitLines(Unwrap(fs.path)), "number")

\* C8: get_subtitles has returned an empty Document from an input that is a
\* number line and nothing else
C8_Dropped ==
    /\ Returned
    /\ fs.path = Some(NumberLine)
    /\ subs = <<>>

\* C9 (as claimed): every TimeSpan held has start_ms < end_ms: the one
\* parse_timespan returns, the one of a record being read and the one of
\* every record of the Document.
C9_StartBeforeEnd ==
    /\ (IsSome(ts_out) /\ Unwrap(ts_out).ok) => Unwrap(ts_out).start_ms < Unwrap(ts_out).end_ms
    /\ IsSome(part_times) => Unwrap(part_times).start_ms < Unwrap(part_times).end_ms
    /\ \A k \in 1..Len(subs) : subs[k].time_span.start_ms < subs[k].time_span.end_ms

\* C9: get_subtitles has returned a record whose interval ends before it starts
C9_Inverted ==
    /\ Returned
    /\ Len(subs) = 1
    /\ subs[1].time_span = TimeSpan(3000, 2000)

\* digits, or digits, a comma or a point, and digits
IsSecondsText(s) ==
    \/ IsDigits(s)
    \/ \E d \in 2..(Len(s) - 1) :
          /\ s[d] \in {",", "."}
          /\ IsDigits(SubSeq(s, 1, d - 1))
          /\ IsDigits(SubSeq(s, d + 1, Len(s)))

\* a timestamp expression without a sign: .mmm, or [[hh:]mm:]ss[.mmm]
IsUnsignedText(s) ==
    \/ Len(s) >= 2 /\ s[1] = "." /\ IsDigits(Tail(s))
    \/ IsSecondsText(s)
    \/ \E c \in 2..(Len(s) - 1) :
          /\ s[c] = ":"
          /\ IsDigits(SubSeq(s, 1, c - 1))
          /\ \/ IsSecondsText(SubSeq(s, c + 1, Len(s)))
             \/ \E c2 \in (c + 2)..(Len(s) - 1) :
                   /\ s[c2] = ":"
                   /\ IsDigits(SubSeq(s, c + 1, c2 - 1))
                   /\ IsSecondsText(SubSeq(s, c2 + 1, Len(s)))

\* empty, or a timestamp expression with or without a sign
IsBoundText(s) ==
    \/ s = <<>>
    \/ IsUnsignedText(s)
    \/ s[1] = "-" /\ IsUnsignedText(Tail(s))

\* the places p at which the input reads A-B with the '-' at p
Shapes(input) ==
    {p \in 1..Len(input) :
        /\ input[p] = "-"
        /\ IsBoundText(SubSeq(input, 1, p - 1))
        /\ IsBoundText(SubSeq(input, p + 1, Len(input)))}

\* the bounds the claim gives the input read with the separator at p
ShapeStart(input, p) == IF p = 1 THEN Ok(I64_MIN) ELSE parse_ms(SubSeq(input, 1, p - 1))
ShapeEnd(input, p) ==
    IF p = Len(input) THEN Ok(I64_MAX) ELSE parse_ms(SubSeq(input, p + 1, Len(input)))

\* parse_timespan has returned r for the text
Parsed(text, r) == IsSome(ts_out) /\ ts_in = text /\ Unwrap(ts_out) = r

\* C10 (as claimed): parse_timespan on a text of the shape A?-B? returns
\* TimeSpan(a, b), a being parse_ms(A) or the minimum and b parse_ms(B) or
\* the maximum.
C10_ShapeGivesSpan ==
    IsSome(ts_out) =>
        \A p \in Shapes(ts_in) :
            Unwrap(ts_out) = TsOk(ShapeStart(ts_in, p).v, ShapeEnd(ts_in, p).v)

\* C10 (amended): on a text of the shape A?-B?, parse_timespan fails when
\* parse_ms fails on A or on B, fails when a >= b, and returns TimeSpan(a, b)
\* otherwise; on any other text it fails.  A '-' that begins A or B is its
\* sign: with x = 1 or 2 seconds, "1-2" is (1000, 2000), "-1-2" is
\* (-1000, 2000), "-2--1" is (-2000, -1000), "-1" is (MIN, 1000), "-1-" is
\* (-1000, MAX), "--1" is (MIN, -1000) and "-" is (MIN, MAX).
C10_ShapeGivesSpanInOrder ==
    IsSome(ts_out) =>
        /\ \A p \in Shapes(ts_in) :
              IF ~ShapeStart(ts_in, p).ok \/ ~ShapeEnd(ts_in, p).ok
              THEN ~Unwrap(ts_out).ok /\ Unwrap(ts_out).err = "Timestamp"
              ELSE IF ShapeStart(ts_in, p).v >= ShapeEnd(ts_in, p).v
              THEN ~Unwrap(ts_out).ok /\ Unwrap(ts_out).err = "Range"
              ELSE Unwrap(ts_out) = TsOk(ShapeStart(ts_in, p).v, ShapeEnd(ts_in, p).v)
        /\ Shapes(ts_in) = {} => (~Unwrap(ts_out).ok /\ Unwrap(ts_out).err = "Malformed")
        /\ ts_in = <<"1", "-", "2">> => Unwrap(ts_out) = TsOk(1000, 2000)
        /\ ts_in = <<"-", "1", "-", "2">> => Unwrap(ts_out) = TsOk(-1000, 2000)
        /\ ts_in = <<"-", "2", "-", "-", "1">> => Unwrap(ts_out) = TsOk(-2000, -1000)
        /\ ts_in = <<"-", "1">> => Unwrap(ts_out) = TsOk(I64_MIN, 1000)
        /\ ts_in = <<"-", "1", "-">> => Unwrap(ts_out) = TsOk(-1000, I64_MAX)
        /\ ts_in = <<"-", "-", "1">> => Unwrap(ts_out) = TsOk(I64_MIN, -1000)
        /\ ts_in = <<"-">> => Unwrap(ts_out) = TsOk(I64_MIN, I64_MAX)

\* C10: parse_timespan has read "-2--1" as the interval from -2 s to -1 s
C10_Reached == Parsed(<<"-", "2", "-", "-", "1">>, TsOk(-2000, -1000))

\* C1: the parse of a formatted Document has failed
C1_ParseFails == IsSome(rt_text) /\ ParseFailed

\* C2: the parse has failed on the timespan line that has the position suffix
C2_SuffixRejected == ParseFailed /\ buf = TimesLinePos /\ part_times = None

\* the texts between the colons of s
RECURSIVE Fields(_)
Fields(s) ==
    IF \A k \in 1..Len(s) : s[k] # ":" THEN <<s>>
    ELSE LET c == CHOOSE k \in 1..Len(s) : s[k] = ":" /\ \A j \in 1..(k - 1) : s[j] # ":"
         IN  <<SubSeq(s, 1, c - 1)>> \o Fields(SubSeq(s, c + 1, Len(s)))

\* s is [[hh:]mm:]ss, every field written in digits
IsClockText(s) ==
    /\ Len(Fields(s)) \in 1..3
    /\ \A k \in 1..Len(Fields(s)) : IsDigits(Fields(s)[k])

\* the value of the field that is `back` fields before the last, 0 when it is not written
FieldFromEnd(s, back) ==
    IF Len(Fields(s)) > back THEN ParseNat(Fields(s)[Len(Fields(s)) - back]) ELSE 0

\* C11 (as claimed): parse_ms rejects a text that has a minutes or an hours
\* field, whatever the value written in it, when its minutes or its seconds
\* are more than 60, and accepts it otherwise; it accepts a text of seconds
\* alone whatever their count; the hours are not bounded.
C11_WrittenFieldsChecked ==
    (IsSome(ts_out) /\ pc = "exit" /\ IsClockText(ts_in)) =>
        IF Len(Fields(ts_in)) > 1 /\ (FieldFromEnd(ts_in, 1) > 60 \/ FieldFromEnd(ts_in, 0) > 60)
        THEN ~Unwrap(ts_out).ok
        ELSE Unwrap(ts_out) =
                Ok(1000 * (FieldFromEnd(ts_in, 0)
                             + 60 * (FieldFromEnd(ts_in, 1) + 60 * FieldFromEnd(ts_in, 2))))

\* C11: parse_ms has accepted "0:61", a text with a minutes field and 61 seconds
C11_Accepted ==
    /\ ts_in = <<"0", ":", "6", "1">>
    /\ ts_out = Some(Ok(61000))

\* floor(0.d * 1000): the first three digits of d, with zeros for those it lacks
Millis(d) == ParseNat(SubSeq(d \o <<"0", "0", "0">>, 1, 3))

\* C12 (as claimed): for a fraction d of any length, with any zeros before
\* and after, parse_decimal_part succeeds and returns floor(0.d * 1000):
\* "050" gives 50, "05" 50, "5" 500, "0005" 0, "5000" 500 and "000" 0.
C12_Truncates ==
    (IsSome(ts_out) /\ IsDigits(ts_in)) =>
        /\ pc = "exit"
        /\ Unwrap(ts_out).ok
        /\ Unwrap(ts_out).v = Millis(ts_in)
        /\ ts_in = <<"0", "5", "0">> => Unwrap(ts_out).v = 50
        /\ ts_in = <<"0", "5">> => Unwrap(ts_out).v = 50
        /\ ts_in = <<"5">> => Unwrap(ts_out).v = 500
        /\ ts_in = <<"0", "0", "0", "5">> => Unwrap(ts_out).v = 0
        /\ ts_in = <<"5", "0", "0", "0">> => Unwrap(ts_out).v = 500
        /\ ts_in = <<"0", "0", "0">> => Unwrap(ts_out).v = 0

\* C12: parse_decimal_part has returned 37 for a fraction of seventeen 2s
C12_Wrapped ==
    /\ ts_in = Repeat("2", 17)
    /\ ts_out = Some(DecimalOk(37))

\* [-]hh:mm:ss,mmm with every field of two digits, or more for the hours, and
\* three digits of milliseconds
IsCanonical(t) ==
    LET u == IF t # <<>> /\ t[1] = "-" THEN Tail(t) ELSE t
        n == Len(u)
    IN  /\ n >= 12
        /\ IsDigits(SubSeq(u, 1, n - 10)) /\ u[n - 9] = ":"
        /\ IsDigits(SubSeq(u, n - 8, n - 7)) /\ u[n - 6] = ":"
        /\ IsDigits(SubSeq(u, n - 5, n - 4)) /\ u[n - 3] = ","
        /\ IsDigits(SubSeq(u, n - 2, n))

\* C13 (as claimed): formatting any Milliseconds, negative ones and those of
\* 100 hours or more included, ends with a canonical zero-padded text
\* [-]hh:mm:ss,mmm, and parse_ms accepts that text and returns the same value.
C13_FormatParses ==
    (pc \in {"parse_back", "exit", "panic"}) =>
        /\ pc # "panic"
        /\ IsCanonical(Unwrap(rt_text))
        /\ pc = "exit" => ts_out = Some(Ok(ts_in))

\* C13: i64::MIN has been formatted where overflow wraps, and parse_ms has
\* refused the text
C13_MinRejected ==
    /\ ts_in = I64_MIN
    /\ rt_text = Some(MinMsWrapped)
    /\ ts_out = Some(Err)

\* the text of a record, without the tag its first line may start with
TextOf(sub) == [n \in 1..Len(sub.lines) |-> IF n = 1 THEN Untag(sub.lines[n]) ELSE sub.lines[n]]

\* C14: modify keeps the number of records, and every record it has passed
\* is the record that was at its place, with the text it had; when renumber
\* is requested the k-th record has number k whatever its number was, and
\* otherwise it keeps its number.  So after modify has succeeded on N records
\* their numbers are 1, 2, ..., N, or unchanged.
C14_Numbers ==
    /\ Len(subs) = Len(orig)
    /\ \A k \in 1..idx :
          /\ TextOf(subs[k]) = TextOf(orig[k])
          /\ subs[k].number = IF opt.renumber_offset THEN k ELSE orig[k].number
    /\ pc = "backup" => idx = Len(orig)

\* C14: modify has succeeded with renumber on records numbered 7 and 1,
\* and they are numbered 1 and 2
C14_Reached ==
    /\ pc = "backup" /\ opt.renumber_offset
    /\ Len(orig) = 2 /\ orig[1].number = 7 /\ orig[2].number = 1
    /\ subs[1].number = 1 /\ subs[2].number = 2

\* C15: every record get_subtitles has appended has at least one text line,
\* and so has the record in hand once part_lines is Some; hence sub.lines[0]
\* exists for every record of the Document get_subtitles returns.
C15_HasText ==
    /\ \A k \in 1..Len(subs) : Len(subs[k].lines) >= 1
    /\ IsSome(part_lines) => Len(Unwrap(part_lines)) >= 1

\* C15: get_subtitles has returned one record with one text line for an input
\* in which a blank line follows the timespan line: the blank line appended
\* nothing
C15_Reached ==
    /\ pc = "modify" /\ idx = 0
    /\ fs.path = Some(NumberLine \o TimesLineA \o BlankLine \o Hello)
    /\ subs = <<Subtitle(1, SpanA, None, <<Hello>>)>>

\* C16: in every input at most one '-' has, before it, nothing or a text
\* NUMBER matches and, after it, nothing or a text NUMBER matches; so what
\* parse_timespan returns is what the match at that '-' gives, whichever
\* match the regex engine tries first.
C16_OneSeparator ==
    /\ Cardinality(Separators(ts_in)) <= 1
    /\ IsSome(ts_out) =>
          \A p \in Separators(ts_in) : Unwrap(ts_out) = SpanOfMatch(ts_in, p)

\* C16: parse_timespan has read "-1--.2", whose second '-' alone can be the
\* separator, as the interval from -1 s to -0.2 s
C16_Reached ==
    /\ ts_in = <<"-", "1", "-", "-", ".", "2">>
    /\ Separators(ts_in) = {3}
    /\ ts_out = Some(TsOk(-1000, -200))

====
